---- MODULE Spec2Model ----
(***************************************************************************)
(* Model of utilities/experiment_utils.py: the Tracker bookkeeping         *)
(* (epoch / update counters, the losses buffer, the fan-out of scalars to  *)
(* the loggers) and the two loop drivers evaluate and update.              *)
(*                                                                         *)
(* Loggers are recording sinks: log_scalar(tag, value, step) appends one   *)
(* record to `emitted`, which holds the scalars emitted by the last        *)
(* Tracker call.  Floats are exact rationals [kind, num, den].             *)
(***************************************************************************)
EXTENDS Integers, Sequences, FiniteSets

VARIABLES
    epoch,          \* Tracker.epoch
    update,         \* Tracker.update
    losses,         \* Tracker.losses
    loggers,        \* number of loggers in Tracker.loggers (logger k is 1..loggers)
    log_every,      \* Tracker.log_every
    metrics,        \* Tracker.metrics (<<>> stands for None or [], both falsy)
    metrics_names,  \* Tracker.metrics_names (<<>> stands for None or [])
    pre_tag,        \* Tracker.pre_tag
    call,           \* the last Tracker method called, with its arguments
    emitted,        \* the log_scalar calls made by the last Tracker method call
    ret,            \* outcome of the last Tracker method call
    pc,             \* position of the running loop driver, "idle" when none runs
    batches,        \* batches the data source has still to yield
    y_array,        \* evaluate: y_array
    preds_array,    \* evaluate: preds_array
    cur_loss,       \* update: loss of the batch being processed
    grad,           \* backward passes accumulated in the optimizer's gradients
    step_grads,     \* backward passes held by the gradients at the last opt.step()
    done            \* the loop driver that returned last

tracker_vars == <<epoch, update, losses, call, emitted, ret>>
config_vars == <<loggers, log_every, metrics, metrics_names, pre_tag>>
loop_vars == <<pc, batches, y_array, preds_array, cur_loss, grad, step_grads, done>>
vars == <<epoch, update, losses, loggers, log_every, metrics, metrics_names,
          pre_tag, call, emitted, ret, pc, batches, y_array, preds_array,
          cur_loss, grad, step_grads, done>>

----------------------------------------------------------------------------
(* Bounds and input sets *)

MaxLosses == 3
MaxEpoch == 2
MaxBatches == 2
CadenceLen == 5

Losses == {1, 2}
NumLoggers == {0, 1, 2}
LogEveryValues == {0, 1, 2}
PreTags == {"", "train"}
Arrays == {<<1, 0>>, <<0, 0>>, <<1, 0, 1>>}
Bits == {0, 1}
GradStates == {0, 1}

----------------------------------------------------------------------------
(* Values *)

Str(s) == [type |-> "str", val |-> s]
Callable(f) == [type |-> "function", val |-> f]

MetricConfigs == {<<>>, <<Callable("eq"), Callable("size")>>}
NameConfigs == {<<>>, <<Str("acc")>>, <<Str("acc"), Str("size")>>}

RECURSIVE GCD(_, _)
GCD(a, b) == IF b = 0 THEN a ELSE GCD(b, a % b)

Float(n, d) == [kind |-> "float", num |-> n \div GCD(n, d), den |-> d \div GCD(n, d)]
NaN == [kind |-> "nan", num |-> 0, den |-> 0]
None == [kind |-> "None", num |-> 0, den |-> 0]

Return(v) == [status |-> "return", value |-> v]
Raise(e) == [status |-> e, value |-> None]

Call(op, loss, y, pred) == [op |-> op, loss |-> loss, y |-> y, pred |-> pred]

Scalar(k, tag, value, step) == [logger |-> k, tag |-> tag, value |-> value, step |-> step]

RECURSIVE SumSeq(_)
SumSeq(s) == IF s = <<>> THEN 0 ELSE Head(s) + SumSeq(Tail(s))

Min(S) == CHOOSE x \in S : \A z \in S : x <= z

----------------------------------------------------------------------------
(* Tracker *)

\* str + str concatenates; str + callable raises TypeError
PreRaises(pt, x) == pt # "" /\ x.type # "str"

Pre(pt, x) == IF pt # "" THEN Str(pt \o "." \o x.val) ELSE x

NextUpdateAlways(e, u) == u + 1

NextUpdate(e, u) == IF e > 0 THEN u + 1 ELSE u

ShouldLogNoZeroCheck(le, u) == le > 0 /\ u % le = 0

ShouldLogNoModulus(le, u) == le > 0 /\ u # 0

ShouldLog(le, u) == le > 0 /\ u % le = 0 /\ u # 0

MeanFloorDiv(s) == IF Len(s) = 0 THEN NaN ELSE Float(SumSeq(s) \div Len(s), 1)

MeanEmptyIsZero(s) == IF Len(s) = 0 THEN Float(0, 1) ELSE Float(SumSeq(s), Len(s))

\* float(np.mean(losses).item()): nan for an empty list
Mean(s) == IF Len(s) = 0 THEN NaN ELSE Float(SumSeq(s), Len(s))

NextEpoch(e) == e + 1

SummaryStepAfterIncrement(e) == e + 1

SummaryStep(e) == e

MetricsAlwaysEnabled(ms) == TRUE

MetricsEnabled(ms) == Len(ms) # 0

MetricValue(m, y, p) ==
    IF m.val = "eq" THEN Float(IF y = p THEN 1 ELSE 0, 1) ELSE Float(Len(y), 1)

MetricNames(ms, ns) == IF Len(ns) # 0 THEN ns ELSE ms

Zip(a, b) ==
    [i \in 1..(IF Len(a) <= Len(b) THEN Len(a) ELSE Len(b)) |-> <<a[i], b[i]>>]

\* the log_scalar calls of compute_metrics in order, logger-major
Planned(n, pairs) ==
    [k \in 1..(n * Len(pairs)) |->
        [logger |-> ((k - 1) \div Len(pairs)) + 1,
         metric |-> pairs[((k - 1) % Len(pairs)) + 1][1],
         name   |-> pairs[((k - 1) % Len(pairs)) + 1][2]]]

track_loss(loss) ==
    LET u == NextUpdate(epoch, update) IN
    /\ update' = u
    /\ emitted' = IF ShouldLog(log_every, u)
                  THEN [k \in 1..loggers |->
                           Scalar(k, Pre(pre_tag, Str("loss")), Float(loss, 1), u)]
                  ELSE <<>>
    /\ losses' = Append(losses, loss)
    /\ ret' = Return(None)
    /\ call' = Call("track_loss", loss, <<>>, <<>>)
    /\ UNCHANGED epoch

summarise ==
    LET avg_loss == Mean(losses) IN
    /\ losses' = <<>>
    /\ emitted' = [k \in 1..loggers |->
                      Scalar(k, Pre(pre_tag, Str("avg_loss")), avg_loss, SummaryStep(epoch))]
    /\ epoch' = NextEpoch(epoch)
    /\ ret' = Return(avg_loss)
    /\ call' = Call("summarise", 0, <<>>, <<>>)
    /\ UNCHANGED update

compute_metrics(y, p) ==
    /\ call' = Call("compute_metrics", 0, y, p)
    /\ UNCHANGED <<epoch, update, losses>>
    /\ IF ~MetricsEnabled(metrics)
       THEN emitted' = <<>> /\ ret' = Return(None)
       ELSE IF Len(y) # Len(p)
       THEN emitted' = <<>> /\ ret' = Raise("AssertionError")
       ELSE LET plan == Planned(loggers, Zip(metrics, MetricNames(metrics, metrics_names)))
                bad  == {k \in DOMAIN plan : PreRaises(pre_tag, plan[k].name)}
                stop == IF bad = {} THEN Len(plan) ELSE Min(bad) - 1
            IN /\ emitted' = [k \in 1..stop |->
                                 Scalar(plan[k].logger, Pre(pre_tag, plan[k].name),
                                        MetricValue(plan[k].metric, y, p), epoch)]
               /\ ret' = IF bad = {} THEN Return(None) ELSE Raise("TypeError")

----------------------------------------------------------------------------
(* Tracker driven directly through its three methods *)

TrackerInit ==
    /\ epoch = 0
    /\ update = 0
    /\ losses = <<>>
    /\ call = Call("__init__", 0, <<>>, <<>>)
    /\ emitted = <<>>
    /\ ret = Return(None)

LoopIdle ==
    /\ pc = "idle"
    /\ batches = 0
    /\ y_array = <<>>
    /\ preds_array = <<>>
    /\ cur_loss = 0
    /\ step_grads = 0
    /\ done = "none"

Init ==
    /\ TrackerInit
    /\ loggers \in NumLoggers
    /\ log_every \in LogEveryValues
    /\ metrics \in MetricConfigs
    /\ metrics_names \in NameConfigs
    /\ pre_tag \in PreTags
    /\ LoopIdle
    /\ grad = 0

TrackLoss ==
    /\ pc = "idle"
    /\ Len(losses) < MaxLosses
    /\ \E loss \in Losses : track_loss(loss)
    /\ UNCHANGED <<config_vars, loop_vars>>

Summarise ==
    /\ pc = "idle"
    /\ epoch < MaxEpoch
    /\ summarise
    /\ UNCHANGED <<config_vars, loop_vars>>

ComputeMetrics ==
    /\ pc = "idle"
    /\ \E y \in Arrays, p \in Arrays : compute_metrics(y, p)
    /\ UNCHANGED <<config_vars, loop_vars>>

Next == TrackLoss \/ Summarise \/ ComputeMetrics

Spec == Init /\ [][Next]_vars

----------------------------------------------------------------------------
(* The cadence scenario: log_every = 2, one loss value, epochs of up to
   CadenceLen tracked losses *)

CadenceInit ==
    /\ TrackerInit
    /\ loggers \in NumLoggers \ {0}
    /\ log_every = 2
    /\ metrics \in MetricConfigs
    /\ metrics_names = <<>>
    /\ pre_tag \in PreTags
    /\ LoopIdle
    /\ grad = 0

CadenceTrackLoss ==
    /\ pc = "idle"
    /\ Len(losses) < CadenceLen
    /\ track_loss(1)
    /\ UNCHANGED <<config_vars, loop_vars>>

CadenceNext == CadenceTrackLoss \/ Summarise

SpecCadence == CadenceInit /\ [][CadenceNext]_vars

----------------------------------------------------------------------------
(* Loop drivers.  _forward yields one (x, y, out, res) per batch of the data
   source; a batch holds one example. *)

LoopInit ==
    /\ TrackerInit
    /\ loggers \in NumLoggers \ {0}
    /\ log_every = 1
    /\ metrics \in MetricConfigs
    /\ metrics_names \in NameConfigs
    /\ pre_tag \in PreTags
    /\ LoopIdle
    /\ grad \in GradStates

ZeroGradNoop(g) == g

\* opt.zero_grad()
ZeroGrad(g) == 0

\* loss.backward() adds the batch's gradients to the accumulated ones
Backward(g) == g + 1

EvaluateStart ==
    /\ pc = "idle"
    /\ epoch < MaxEpoch
    /\ \E n \in 0..MaxBatches :
          /\ Len(losses) + n <= MaxLosses
          /\ batches' = n
    /\ y_array' = <<>>
    /\ preds_array' = <<>>
    /\ pc' = "ev_iter"
    /\ UNCHANGED <<tracker_vars, config_vars, cur_loss, grad, step_grads, done>>

EvaluateBatch ==
    /\ pc = "ev_iter"
    /\ batches > 0
    /\ \E loss \in Losses, y \in Bits, pred \in Bits :
          /\ track_loss(loss)
          /\ y_array' = Append(y_array, y)
          /\ preds_array' = Append(preds_array, pred)
    /\ batches' = batches - 1
    /\ UNCHANGED <<config_vars, pc, cur_loss, grad, step_grads, done>>

\* an exception of compute_metrics propagates out of evaluate
EvaluateMetrics ==
    /\ pc = "ev_iter"
    /\ batches = 0
    /\ compute_metrics(y_array, preds_array)
    /\ pc' = IF ret'.status = "return" THEN "ev_summarise" ELSE "idle"
    /\ UNCHANGED <<config_vars, batches, y_array, preds_array, cur_loss, grad,
                   step_grads, done>>

EvaluateReturn ==
    /\ pc = "ev_summarise"
    /\ summarise
    /\ pc' = "idle"
    /\ done' = "evaluate"
    /\ UNCHANGED <<config_vars, batches, y_array, preds_array, cur_loss, grad,
                   step_grads>>

UpdateStart ==
    /\ pc = "idle"
    /\ epoch < MaxEpoch
    /\ \E n \in 0..MaxBatches :
          /\ Len(losses) + n <= MaxLosses
          /\ batches' = n
    /\ grad' = ZeroGrad(grad)
    /\ pc' = "up_iter"
    /\ UNCHANGED <<tracker_vars, config_vars, y_array, preds_array, cur_loss,
                   step_grads, done>>

UpdateBackward ==
    /\ pc = "up_iter"
    /\ batches > 0
    /\ cur_loss' \in Losses
    /\ grad' = Backward(grad)
    /\ pc' = "up_step"
    /\ UNCHANGED <<tracker_vars, config_vars, batches, y_array, preds_array,
                   step_grads, done>>

UpdateStep ==
    /\ pc = "up_step"
    /\ step_grads' = grad
    /\ pc' = "up_track"
    /\ UNCHANGED <<tracker_vars, config_vars, batches, y_array, preds_array,
                   cur_loss, grad, done>>

UpdateTrack ==
    /\ pc = "up_track"
    /\ track_loss(cur_loss)
    /\ pc' = "up_zero"
    /\ UNCHANGED <<config_vars, batches, y_array, preds_array, cur_loss, grad,
                   step_grads, done>>

UpdateZero ==
    /\ pc = "up_zero"
    /\ grad' = ZeroGrad(grad)
    /\ batches' = batches - 1
    /\ pc' = "up_iter"
    /\ UNCHANGED <<tracker_vars, config_vars, y_array, preds_array, cur_loss,
                   step_grads, done>>

UpdateReturn ==
    /\ pc = "up_iter"
    /\ batches = 0
    /\ summarise
    /\ pc' = "idle"
    /\ done' = "update"
    /\ UNCHANGED <<config_vars, batches, y_array, preds_array, cur_loss, grad,
                   step_grads>>

LoopNext ==
    \/ EvaluateStart \/ EvaluateBatch \/ EvaluateMetrics \/ EvaluateReturn
    \/ UpdateStart \/ UpdateBackward \/ UpdateStep \/ UpdateTrack
    \/ UpdateZero \/ UpdateReturn

SpecLoops == LoopInit /\ [][LoopNext]_vars

----------------------------------------------------------------------------
(* Properties *)

IsCall(op) == call'.op = op

LossTag == IF pre_tag # "" THEN Str(pre_tag \o ".loss") ELSE Str("loss")
AvgLossTag == IF pre_tag # "" THEN Str(pre_tag \o ".avg_loss") ELSE Str("avg_loss")

\* C1: summarise on a non-empty buffer returns the arithmetic mean of the
\* losses tracked since construction or the previous summarise and leaves the
\* buffer empty; every track_loss appends its loss to the buffer, and
\* compute_metrics does not touch the buffer.
C1_SummariseMean ==
    [][ /\ (IsCall("summarise") /\ Len(losses) > 0) =>
              /\ ret'.status = "return"
              /\ ret'.value.kind = "float"
              /\ ret'.value.den > 0
              /\ ret'.value.num * Len(losses) = ret'.value.den * SumSeq(losses)
              /\ losses' = <<>>
        /\ IsCall("track_loss") => losses' = Append(losses, call'.loss)
        /\ IsCall("compute_metrics") => losses' = losses ]_vars

C1_Witness ==
    /\ call.op = "summarise"
    /\ ret.value = [kind |-> "float", num |-> 5, den |-> 3]
    /\ losses = <<>>

\* C2: epoch starts at 0, never decreases, grows by exactly 1 on each
\* summarise and on nothing else; the summarise made at epoch k (the k-th one,
\* counted from 0) emits avg_loss exactly once to every logger, with step k.
C2_EpochPerSummarise ==
    /\ epoch = 0
    /\ [][ /\ epoch' >= epoch
           /\ IsCall("summarise") =>
                 /\ epoch' = epoch + 1
                 /\ Len(emitted') = loggers
                 /\ \A k \in 1..loggers :
                       /\ emitted'[k].logger = k
                       /\ emitted'[k].tag = AvgLossTag
                       /\ emitted'[k].value = ret'.value
                       /\ emitted'[k].step = epoch
           /\ ~IsCall("summarise") => epoch' = epoch ]_vars

C2_Witness ==
    /\ call.op = "summarise"
    /\ epoch = 2
    /\ loggers = 2
    /\ Len(emitted) = 2
    /\ emitted[2].step = 1

\* C3: update grows by exactly 1 on a track_loss made while epoch > 0, is left
\* alone by a track_loss made while epoch = 0, and is never changed by
\* summarise or compute_metrics.
C3_UpdateCounter ==
    [][ /\ (IsCall("track_loss") /\ epoch > 0) => update' = update + 1
        /\ (IsCall("track_loss") /\ epoch = 0) => update' = update
        /\ (IsCall("summarise") \/ IsCall("compute_metrics")) => update' = update ]_vars

C3_Witness ==
    /\ call.op = "track_loss"
    /\ epoch > 0
    /\ update = 2

\* C4 as claimed: with log_every = 2, in any epoch > 0, whatever earlier
\* epochs tracked, the loss scalar is emitted on the 2nd and 4th of five
\* track_loss calls of the epoch and on no other.
C4_SecondAndFourthAnyEpoch ==
    [][ (IsCall("track_loss") /\ log_every = 2 /\ epoch > 0 /\ Len(losses') <= 5) =>
            ((emitted' # <<>>) <=> (Len(losses') \in {2, 4})) ]_vars

\* C4 amended: with log_every = 2, in an epoch > 0 at whose start update is
\* even (update - Len(losses) is update's value when the epoch began), the
\* loss scalar is emitted, to every logger with step = update, on the 2nd and
\* 4th of five track_loss calls only; when update is odd at the start of the
\* epoch it is emitted on the 1st, 3rd and 5th calls instead.
C4_CadenceByUpdateParity ==
    [][ (IsCall("track_loss") /\ log_every = 2 /\ epoch > 0 /\ Len(losses') <= 5) =>
            LET start == update - Len(losses)
                logged == IF start % 2 = 0 THEN {2, 4} ELSE {1, 3, 5}
            IN /\ (emitted' # <<>>) <=> (Len(losses') \in logged)
               /\ emitted' # <<>> =>
                     /\ Len(emitted') = loggers
                     /\ \A k \in 1..loggers :
                           /\ emitted'[k].logger = k
                           /\ emitted'[k].tag = LossTag
                           /\ emitted'[k].step = update' ]_vars

C4_Witness ==
    /\ call.op = "track_loss"
    /\ log_every = 2
    /\ epoch = 2
    /\ Len(losses) = 5
    /\ (update - 5) % 2 = 0
    /\ emitted = <<>>

\* C5 as claimed: compute_metrics with len(y) # len(pred) raises for every
\* configuration, the one without metrics included, emits nothing and leaves
\* epoch, update and the buffer unchanged.
C5_MismatchAlwaysRaises ==
    [][ (IsCall("compute_metrics") /\ Len(call'.y) # Len(call'.pred)) =>
            /\ ret'.status # "return"
            /\ emitted' = <<>>
            /\ UNCHANGED <<epoch, update, losses>> ]_vars

\* C5 amended: compute_metrics with len(y) # len(pred) raises the assertion
\* error when metrics are configured and returns normally when none are; in
\* both cases it emits nothing and leaves epoch, update and the buffer
\* unchanged.
C5_MismatchRaisesWithMetrics ==
    [][ (IsCall("compute_metrics") /\ Len(call'.y) # Len(call'.pred)) =>
            /\ Len(metrics) # 0 => ret'.status = "AssertionError"
            /\ Len(metrics) = 0 => ret'.status = "return"
            /\ emitted' = <<>>
            /\ UNCHANGED <<epoch, update, losses>> ]_vars

C5_Witness ==
    /\ call.op = "compute_metrics"
    /\ Len(call.y) = 3
    /\ Len(call.pred) = 2
    /\ loggers > 0
    /\ ret.status = "AssertionError"

\* C6 as claimed: summarise on an empty buffer fails: no value returned, no
\* avg_loss emitted, epoch not incremented.
C6_EmptySummariseFails ==
    [][ (IsCall("summarise") /\ losses = <<>>) =>
            /\ ret'.status # "return"
            /\ emitted' = <<>>
            /\ epoch' = epoch ]_vars

\* C6 amended: summarise on an empty buffer does not fail: it returns NaN,
\* emits avg_loss with value NaN to every logger at step = epoch and
\* increments epoch by 1.
C6_EmptySummariseNaN ==
    [][ (IsCall("summarise") /\ losses = <<>>) =>
            /\ ret'.status = "return"
            /\ ret'.value.kind = "nan"
            /\ Len(emitted') = loggers
            /\ \A k \in 1..loggers :
                  /\ emitted'[k].logger = k
                  /\ emitted'[k].tag = AvgLossTag
                  /\ emitted'[k].value.kind = "nan"
                  /\ emitted'[k].step = epoch
            /\ epoch' = epoch + 1
            /\ losses' = <<>> ]_vars

C6_Witness ==
    /\ call.op = "summarise"
    /\ ret.value.kind = "nan"
    /\ loggers = 2
    /\ Len(emitted) = 2
    /\ epoch = 1

\* the tag the prefix rule gives a name
PrefixedTag(name) == IF pre_tag # "" THEN Str(pre_tag \o "." \o name.val) ELSE name

EmittedNames ==
    IF call.op = "track_loss" THEN {Str("loss")}
    ELSE IF call.op = "summarise" THEN {Str("avg_loss")}
    ELSE {(IF Len(metrics_names) # 0 THEN metrics_names ELSE metrics)[i] :
             i \in 1..(IF Len(metrics_names) # 0 /\ Len(metrics_names) < Len(metrics)
                       THEN Len(metrics_names) ELSE Len(metrics))}

\* C7: every emitted scalar carries pre_tag + "." + name when pre_tag is
\* non-empty and the bare name otherwise, and compute_metrics with metrics and
\* arrays of equal length emits rather than raises for every combination of
\* pre_tag and metrics_names present or absent.
C7_TagPrefix ==
    /\ \A i \in DOMAIN emitted : \E n \in EmittedNames : emitted[i].tag = PrefixedTag(n)
    /\ (call.op = "compute_metrics" /\ Len(metrics) # 0 /\ Len(call.y) = Len(call.pred)) =>
          /\ ret.status = "return"
          /\ loggers > 0 => emitted # <<>>

\* C8: compute_metrics with metrics and arrays of equal length emits to every
\* logger exactly one scalar per (metric, name) pair, with value
\* metric(y, pred) and step = epoch, and changes no Tracker state; without
\* metrics it emits nothing; the metrics of an evaluate call carry the step of
\* the avg_loss its summarise emits.
C8_MetricsFrame ==
    [][ /\ IsCall("compute_metrics") => UNCHANGED <<epoch, update, losses>>
        /\ (IsCall("compute_metrics") /\ Len(metrics) = 0) =>
              (emitted' = <<>> /\ ret'.status = "return")
        /\ (IsCall("compute_metrics") /\ Len(metrics) # 0
                /\ Len(call'.y) = Len(call'.pred)) =>
              LET names == IF Len(metrics_names) # 0 THEN metrics_names ELSE metrics
                  n == IF Len(names) < Len(metrics) THEN Len(names) ELSE Len(metrics)
              IN /\ ret'.status = "return"
                 /\ Len(emitted') = loggers * n
                 /\ \A k \in 1..loggers, i \in 1..n :
                       \E j \in DOMAIN emitted' :
                          /\ emitted'[j].logger = k
                          /\ emitted'[j].tag = PrefixedTag(names[i])
                          /\ emitted'[j].value = MetricValue(metrics[i], call'.y, call'.pred)
                          /\ emitted'[j].step = epoch
        /\ (pc = "ev_summarise" /\ IsCall("summarise")) =>
              \A i \in DOMAIN emitted, j \in DOMAIN emitted' :
                 emitted[i].step = emitted'[j].step ]_vars

\* C9: epoch = 0 implies update = 0; a track_loss made during epoch 0 emits
\* nothing, whatever log_every is; every loss scalar emitted has a step that
\* is a positive multiple of log_every.
C9_EpochZeroSilent ==
    /\ epoch = 0 => update = 0
    /\ (call.op = "track_loss" /\ epoch = 0) => emitted = <<>>
    /\ call.op = "track_loss" =>
          \A i \in DOMAIN emitted :
             /\ emitted[i].tag = LossTag
             /\ log_every > 0
             /\ emitted[i].step > 0
             /\ emitted[i].step % log_every = 0

C9_Witness ==
    /\ call.op = "track_loss"
    /\ epoch = 0
    /\ log_every = 1
    /\ loggers = 2
    /\ Len(losses) = 2
    /\ emitted = <<>>

\* C10: in update the gradients are zero when each backward pass starts
\* (zeroed before the first batch and after every step), every opt.step()
\* uses the gradients of exactly one backward pass, each batch's loss is
\* appended to the buffer exactly once, between its step and its zeroing, and
\* the gradients are zero when update returns.
C10_UpdateLoop ==
    [][ /\ (pc = "up_iter" /\ pc' = "up_step") => (grad = 0 /\ grad' = 1)
        /\ pc = "up_step" => (pc' = "up_track" /\ step_grads' = 1 /\ losses' = losses)
        /\ pc = "up_track" =>
              (pc' = "up_zero" /\ IsCall("track_loss")
               /\ losses' = Append(losses, cur_loss))
        /\ pc = "up_zero" =>
              (pc' = "up_iter" /\ grad' = 0 /\ batches' = batches - 1 /\ losses' = losses)
        /\ (pc = "up_iter" /\ pc' = "up_step") => losses' = losses
        /\ (pc = "up_iter" /\ pc' = "idle") =>
              (batches = 0 /\ grad' = 0 /\ IsCall("summarise")) ]_vars

C10_Witness ==
    /\ done = "update"
    /\ pc = "idle"
    /\ call.op = "summarise"
    /\ ret.value = [kind |-> "float", num |-> 3, den |-> 2]
    /\ step_grads = 1
    /\ grad = 0

====
